---- MODULE Spec2Model ----
(***************************************************************************)
(* asyncgit/src/sync/diff.rs: get_diff.                                    *)
(*                                                                         *)
(* One call of get_diff is modelled as a state machine.  The Diff Source   *)
(* Selector opens the repository, builds the diff, looks at the delta list *)
(* and picks either the synthetic patch of an untracked file or the        *)
(* generic diff; the engine then invokes the callback `put` once per line  *)
(* event, and after the stream the last hunk is flushed and the Diff is    *)
(* returned.  Every unwrap() that fails ends the call in "aborted".        *)
(*                                                                         *)
(* A Vec<DiffLine> is kept as a sequence of runs: a run [content,          *)
(* line_type, n] stands for n consecutive equal DiffLines, so that a line  *)
(* event with n > 1 stands for n consecutive callback invocations with the *)
(* same arguments.  This is what lets a u16 worth of lines be reached.     *)
(***************************************************************************)
EXTENDS Integers, Sequences, FiniteSets, TLC

VARIABLES
    pc,               \* position of the call inside get_diff
    stage,            \* argument `stage`
    overflow_checks,  \* build profile: TRUE = arithmetic overflow panics
    deltas,           \* diff.deltas(): the statuses of the deltas
    file,             \* <<>> or <<f>>: the file of the single new-file delta
    pending,          \* events the engine has still to deliver (fixed streams)
    free_stream,      \* TRUE when the generic stream is not fixed by `file`
    res,              \* Diff: [hunks |-> res.0, count |-> res.1]
    current_lines,    \* Vec<DiffLine> of the hunk in progress
    current_hunk,     \* Option<HunkHeader>: <<>> is None, <<h>> is Some(h)
    source,           \* which stream was fed to put: "none", "patch", "diff"
    reads,            \* number of calls of new_file_content
    failure,          \* which unwrap() failed, "none" while none did
    emitted           \* history: the events delivered to put so far

vars == <<pc, stage, overflow_checks, deltas, file, pending, free_stream, res,
          current_lines, current_hunk, source, reads, failure, emitted>>

(***************************************************************************)
(* Bounds                                                                  *)
(***************************************************************************)
MaxEvents == 3      \* events of a free generic stream
MaxFileLines == 2   \* lines of the new file
MaxDeltas == 2      \* deltas of the diff

(***************************************************************************)
(* Data                                                                    *)
(***************************************************************************)
\* largest value of the u16 line counter Diff.1
U16_MAX == 65535

\* `lines.len() as u16`: the truncating cast
as_u16(x) == x % (U16_MAX + 1)

\* HunkHeader values the engine reports; HB differs from HA in new_lines only
HA == [old_start |-> 1, old_lines |-> 3, new_start |-> 1, new_lines |-> 4]
HB == [old_start |-> 1, old_lines |-> 3, new_start |-> 1, new_lines |-> 5]
Headers == {HA, HB}

\* the hunk header of a file added as a whole with N lines: @@ -0,0 +1,N @@
NewFileHunk(N) ==
    [old_start |-> 0, old_lines |-> 0, new_start |-> 1, new_lines |-> N]

\* line bytes that are not valid UTF-8, and what lossy decoding makes of them
InvalidBytes == {"<ff>", "<ff>\n"}

\* String::from_utf8_lossy(bytes).to_string()
from_utf8_lossy(bytes) ==
    CASE bytes = "<ff>" -> "<fffd>"
      [] bytes = "<ff>\n" -> "<fffd>\n"
      [] OTHER -> bytes

\* origin markers of the lines of a free generic stream, by hunk: addition,
\* deletion and context; addition, ADD_EOFNL and CONTEXT_EOFNL
Origins(h) == IF h.new_lines = 4 THEN {"+", "-", " "} ELSE {"+", ">", "="}

RECURSIVE VecLen(_)
\* Vec::len of a vector kept as runs
VecLen(lines) ==
    IF lines = <<>> THEN 0 ELSE Head(lines).n + VecLen(Tail(lines))

(***************************************************************************)
(* The diff engine and the file system                                     *)
(***************************************************************************)
\* a line event of the engine: `n` consecutive invocations of the callback
\* with hunk `hunk` (<<>> when the line has no hunk) and a git2::DiffLine
\* of origin `origin` and bytes `content`
Event(hunk, origin, content, n) ==
    [hunk |-> hunk, origin |-> origin, content |-> content, n |-> n]

\* the events a free generic stream is made of: single lines with a hunk
\* (one of them not valid UTF-8), lines without a hunk (a file header, a
\* binary notice), and one run of U16_MAX equal lines
Events ==
    UNION {{Event(<<h>>, o, "a\n", 1) : o \in Origins(h)} : h \in Headers}
    \cup {Event(<<HA>>, "+", "<ff>\n", 1)}
    \cup {Event(<<>>, "F", "a\n", 1), Event(<<>>, "B", "<ff>\n", 1)}
    \cup {Event(<<HA>>, "+", "a\n", U16_MAX)}

\* bodies of the lines of a file
LineBodies == {"a", "b", "<ff>"}

RECURSIVE SeqsUpTo(_, _)
\* the sequences over S of length at most k
SeqsUpTo(S, k) ==
    IF k = 0 THEN {<<>>}
    ELSE LET shorter == SeqsUpTo(S, k - 1)
         IN  shorter \cup {Append(s, x) : s \in {t \in shorter : Len(t) = k - 1}, x \in S}

Paths == {"bar.txt", "foo/bar.txt"}

\* what can sit at the path of the delta's new file
RegularFiles ==
    {[kind |-> "file", path |-> p, readable |-> TRUE, lines |-> l, eofnl |-> e, target |-> ""] :
        p \in Paths, l \in SeqsUpTo(LineBodies, MaxFileLines) \ {<<>>}, e \in BOOLEAN}
    \cup {[kind |-> "file", path |-> p, readable |-> r, lines |-> <<>>, eofnl |-> TRUE, target |-> ""] :
        p \in Paths, r \in BOOLEAN}
    \cup {[kind |-> "file", path |-> p, readable |-> FALSE, lines |-> <<"a">>, eofnl |-> TRUE, target |-> ""] :
        p \in Paths}
Symlinks ==
    {[kind |-> "symlink", path |-> p, readable |-> TRUE, lines |-> <<>>, eofnl |-> TRUE, target |-> t] :
        p \in Paths, t \in {"a", "<ff>"}}
OtherEntries ==
    {[kind |-> "other", path |-> p, readable |-> FALSE, lines |-> <<>>, eofnl |-> TRUE, target |-> ""] :
        p \in Paths}
Files == RegularFiles \cup Symlinks \cup OtherEntries

\* a String as its lines and whether the last line is terminated
Text(lines, eofnl) == [lines |-> lines, eofnl |-> eofnl]

\* the fixed string returned when the content cannot be read
FileNotFound == Text(<<"file not found">>, FALSE)

\* fs::read_to_string succeeds on a readable file of valid UTF-8
read_to_string_ok(f) ==
    f.readable /\ \A k \in 1..Len(f.lines) : f.lines[k] \notin InvalidBytes

\* new_file_content: [ok |-> FALSE] stands for the panic of an unwrap()
new_file_content(f) ==
    IF f.kind = "symlink"
    THEN IF f.target \in InvalidBytes
         THEN [ok |-> FALSE, text |-> FileNotFound]
         ELSE [ok |-> TRUE, text |-> Text(<<f.target>>, FALSE)]
    ELSE IF f.kind = "file" /\ read_to_string_ok(f)
    THEN [ok |-> TRUE, text |-> Text(f.lines, f.eofnl)]
    ELSE [ok |-> TRUE, text |-> FileNotFound]

\* the bytes of line k of a text, with its terminator when it has one
LineBytes(text, k) ==
    IF k < Len(text.lines) \/ text.eofnl
    THEN text.lines[k] \o "\n"
    ELSE text.lines[k]

\* the text of the hunk header line of a file added as a whole
NewFileHunkLine(N) ==
    IF N = 1 THEN "@@ -0,0 +1 @@\n" ELSE "@@ -0,0 +1," \o ToString(N) \o " @@\n"

\* the line events of the patch of a file added as a whole: the file header
\* (no hunk), the hunk header line, one '+' line per line of the file, and
\* the no-newline marker when the last line is not terminated
NewFileEvents(text, path) ==
    LET N == Len(text.lines)
        hunk == <<NewFileHunk(N)>>
    IN  IF N = 0 THEN <<>>
        ELSE <<Event(<<>>, "F", "diff --git " \o path \o "\n", 1),
               Event(hunk, "H", NewFileHunkLine(N), 1)>>
             \o [k \in 1..N |-> Event(hunk, "+", LineBytes(text, k), 1)]
             \o (IF text.eofnl THEN <<>>
                 ELSE <<Event(hunk, "<", "\n\\ No newline at end of file\n", 1)>>)

\* Patch::from_buffers(&[], None, newfile_content, Some(&newfile_path)).print
PatchPrint(text, path) == NewFileEvents(text, path)

\* the blob that staging a new file puts into the index
StagedBlob(f) ==
    IF f.kind = "symlink" THEN Text(<<f.target>>, FALSE) ELSE Text(f.lines, f.eofnl)

\* the new files that can be staged
StagedFiles == {f \in Files : f.kind = "symlink" \/ (f.kind = "file" /\ f.readable)}

\* diff.print(DiffFormat::Patch) of a tree-to-index diff whose only delta is
\* a file added as a whole
DiffPrintAdded(f) == NewFileEvents(StagedBlob(f), f.path)

\* statuses a delta can have: a tree-to-index diff reports no untracked file
Statuses(staged) == IF staged THEN {"Added", "Modified"} ELSE {"Untracked", "Modified"}

(***************************************************************************)
(* The Hunk Accumulator                                                    *)
(***************************************************************************)
\* HunkHeader::from(DiffHunk)
HunkHeaderFrom(h) ==
    [old_start |-> h.old_start, old_lines |-> h.old_lines,
     new_start |-> h.new_start, new_lines |-> h.new_lines]

\* mutant of header_ne: only old_start is compared
header_ne_old_start_only(h, hunk_header) == h.old_start # hunk_header.old_start

\* h != hunk_header of the derived PartialEq
header_ne(h, hunk_header) ==
    \/ h.old_start # hunk_header.old_start
    \/ h.old_lines # hunk_header.old_lines
    \/ h.new_start # hunk_header.new_start
    \/ h.new_lines # hunk_header.new_lines

\* mutant of line_type: the '+' of the arm `'>' | '+'` is forgotten
line_type_no_plus(origin) ==
    CASE origin = "H" -> "Header"
      [] origin \in {"<", "-"} -> "Delete"
      [] origin = ">" -> "Add"
      [] OTHER -> "None"

\* mutant of line_type: the markers '<' and '>' are exchanged
line_type_eofnl_swapped(origin) ==
    CASE origin = "H" -> "Header"
      [] origin \in {">", "-"} -> "Delete"
      [] origin \in {"<", "+"} -> "Add"
      [] OTHER -> "None"

\* the match on line.origin()
line_type(origin) ==
    CASE origin = "H" -> "Header"
      [] origin \in {"<", "-"} -> "Delete"
      [] origin \in {">", "+"} -> "Add"
      [] OTHER -> "None"

\* the DiffLine built from a line event (a run of n equal lines)
DiffLine(origin, content, n) ==
    [content |-> from_utf8_lossy(content), line_type |-> line_type(origin), n |-> n]

\* mutant of adder: the counter saturates at the top of the u16 range
adder_saturating(r, lines) ==
    [hunks |-> Append(r.hunks, lines),
     count |-> IF r.count + VecLen(lines) > U16_MAX THEN U16_MAX
               ELSE r.count + VecLen(lines)]

\* mutant of adder: the hunk is put in front of the list
adder_prepends(r, lines) ==
    [hunks |-> <<lines>> \o r.hunks,
     count |-> as_u16(r.count + as_u16(VecLen(lines)))]

\* the closure adder: push the hunk, add its length to the u16 counter
adder(r, lines) ==
    [hunks |-> Append(r.hunks, lines),
     count |-> as_u16(r.count + as_u16(VecLen(lines)))]

\* `res.1 += lines.len() as u16` exceeds the u16 range
adder_overflows(r, lines) == r.count + as_u16(VecLen(lines)) > U16_MAX

\* mutant of is_boundary: the guard `if h != hunk_header` is forgotten
is_boundary_unguarded(cur, hunk) == hunk # <<>> /\ cur # <<>>

\* the arm `Some(h) if h != hunk_header` is taken
is_boundary(cur, hunk) ==
    hunk # <<>> /\ cur # <<>> /\ header_ne(cur[1], HunkHeaderFrom(hunk[1]))

\* mutant of put: the first header is handled like a changed header, so the
\* empty buffer is flushed
put_flush_on_first(a, ev) ==
    IF ev.hunk = <<>> THEN a
    ELSE LET hunk_header == HunkHeaderFrom(ev.hunk[1])
             b == IF a.current_hunk = <<>> \/ is_boundary(a.current_hunk, ev.hunk)
                  THEN [res |-> adder(a.res, a.current_lines),
                        current_lines |-> <<>>,
                        current_hunk |-> <<hunk_header>>]
                  ELSE a
         IN  [b EXCEPT !.current_lines =
                  Append(@, DiffLine(ev.origin, ev.content, ev.n))]

\* mutant of put: a line without a hunk is appended as well
put_keeps_headerless(a, ev) ==
    LET b == IF ev.hunk = <<>> THEN a
             ELSE IF a.current_hunk = <<>>
             THEN [a EXCEPT !.current_hunk = <<HunkHeaderFrom(ev.hunk[1])>>]
             ELSE IF is_boundary(a.current_hunk, ev.hunk)
             THEN [res |-> adder(a.res, a.current_lines),
                   current_lines |-> <<>>,
                   current_hunk |-> <<HunkHeaderFrom(ev.hunk[1])>>]
             ELSE a
    IN  [b EXCEPT !.current_lines =
             Append(@, DiffLine(ev.origin, ev.content, ev.n))]

\* mutant of put: a line without a hunk unsets the tracked header
put_headerless_resets(a, ev) ==
    IF ev.hunk = <<>> THEN [a EXCEPT !.current_hunk = <<>>]
    ELSE LET hunk_header == HunkHeaderFrom(ev.hunk[1])
             b == IF a.current_hunk = <<>>
                  THEN [a EXCEPT !.current_hunk = <<hunk_header>>]
                  ELSE IF is_boundary(a.current_hunk, ev.hunk)
                  THEN [res |-> adder(a.res, a.current_lines),
                        current_lines |-> <<>>,
                        current_hunk |-> <<hunk_header>>]
                  ELSE a
         IN  [b EXCEPT !.current_lines =
                  Append(@, DiffLine(ev.origin, ev.content, ev.n))]

\* mutant of put: current_lines.clear() is forgotten after the flush
put_no_clear(a, ev) ==
    IF ev.hunk = <<>> THEN a
    ELSE LET hunk_header == HunkHeaderFrom(ev.hunk[1])
             b == IF a.current_hunk = <<>>
                  THEN [a EXCEPT !.current_hunk = <<hunk_header>>]
                  ELSE IF is_boundary(a.current_hunk, ev.hunk)
                  THEN [res |-> adder(a.res, a.current_lines),
                        current_lines |-> a.current_lines,
                        current_hunk |-> <<hunk_header>>]
                  ELSE a
         IN  [b EXCEPT !.current_lines =
                  Append(@, DiffLine(ev.origin, ev.content, ev.n))]

\* mutant of put: the flush leaves the tracked header unset
put_unsets_on_flush(a, ev) ==
    IF ev.hunk = <<>> THEN a
    ELSE LET hunk_header == HunkHeaderFrom(ev.hunk[1])
             b == IF a.current_hunk = <<>>
                  THEN [a EXCEPT !.current_hunk = <<hunk_header>>]
                  ELSE IF is_boundary(a.current_hunk, ev.hunk)
                  THEN [res |-> adder(a.res, a.current_lines),
                        current_lines |-> <<>>,
                        current_hunk |-> <<>>]
                  ELSE a
         IN  [b EXCEPT !.current_lines =
                  Append(@, DiffLine(ev.origin, ev.content, ev.n))]

\* the closure put on the accumulator a = [res, current_lines, current_hunk]
put(a, ev) ==
    IF ev.hunk = <<>> THEN a
    ELSE LET hunk_header == HunkHeaderFrom(ev.hunk[1])
             b == IF a.current_hunk = <<>>
                  THEN [a EXCEPT !.current_hunk = <<hunk_header>>]
                  ELSE IF is_boundary(a.current_hunk, ev.hunk)
                  THEN [res |-> adder(a.res, a.current_lines),
                        current_lines |-> <<>>,
                        current_hunk |-> <<hunk_header>>]
                  ELSE a
         IN  [b EXCEPT !.current_lines =
                  Append(@, DiffLine(ev.origin, ev.content, ev.n))]

\* the addition inside put overflows
put_overflows(a, ev) ==
    is_boundary(a.current_hunk, ev.hunk) /\ adder_overflows(a.res, a.current_lines)

\* mutant of final_flush: the last hunk is never flushed
final_flush_missing(r, lines) == r

\* mutant of final_flush: the is_empty test is forgotten
final_flush_unguarded(r, lines) == adder(r, lines)

\* the flush after the stream: `if !current_lines.is_empty() { adder(..) }`
final_flush(r, lines) == IF lines # <<>> THEN adder(r, lines) ELSE r

\* mutant of is_new_file_diff: the number of deltas is not tested
is_new_file_diff_first_untracked(ds) == Len(ds) >= 1 /\ ds[1] = "Untracked"

\* mutant of is_new_file_diff: the status of the single delta is not tested
is_new_file_diff_any_single(ds) == Len(ds) = 1

\* the special case: exactly one delta, and it is untracked
is_new_file_diff(ds) == Len(ds) = 1 /\ ds[1] = "Untracked"

(***************************************************************************)
(* get_diff                                                                *)
(***************************************************************************)
EmptyDiff == [hunks |-> <<>>, count |-> 0]

Init ==
    /\ pc = "open"
    /\ stage \in BOOLEAN
    /\ overflow_checks \in BOOLEAN
    /\ deltas = <<>>
    /\ file = <<>>
    /\ pending = <<>>
    /\ free_stream = FALSE
    /\ res = EmptyDiff
    /\ current_lines = <<>>
    /\ current_hunk = <<>>
    /\ source = "none"
    /\ reads = 0
    /\ failure = "none"
    /\ emitted = <<>>

\* mutant of Abort: the error is recorded but the call goes on to return
Abort_ignored(cause) ==
    /\ failure' = cause
    /\ pc' = "flush"

\* an unwrap() (or a panicking addition) failed: the call ends without a Diff
Abort(cause) ==
    /\ failure' = cause
    /\ pc' = "aborted"

\* utils::repo(repo_path)
OpenRepo ==
    /\ pc = "open"
    /\ \/ pc' = "diff" /\ UNCHANGED failure
       \/ Abort("repo")
    /\ UNCHANGED <<stage, overflow_checks, deltas, file, pending, free_stream, res,
                   current_lines, current_hunk, source, reads, emitted>>

\* the unwrap()s on the way to the diff object
DiffFailures(staged) ==
    IF staged THEN {"head", "target", "commit", "tree", "index", "diff"} ELSE {"diff"}

\* `let diff = if stage { .. } else { .. }`, then the fresh accumulator
BuildDiff ==
    /\ pc = "diff"
    /\ \/ /\ \E ds \in SeqsUpTo(Statuses(stage), MaxDeltas) : deltas' = ds
          /\ pc' = "deltas"
          /\ UNCHANGED failure
       \/ /\ \E cause \in DiffFailures(stage) : Abort(cause)
          /\ UNCHANGED deltas
    /\ res' = EmptyDiff
    /\ current_lines' = <<>>
    /\ current_hunk' = <<>>
    /\ UNCHANGED <<stage, overflow_checks, file, pending, free_stream, source, reads,
                   emitted>>

\* the new-file branch up to patch.print: read the content, build the patch
NewFilePatch ==
    /\ pc = "deltas"
    /\ is_new_file_diff(deltas)
    /\ \E f \in Files :
          LET newfile_content == new_file_content(f)
          IN  /\ file' = <<f>>
              /\ reads' = reads + 1
              /\ \/ /\ newfile_content.ok
                    /\ pending' = PatchPrint(newfile_content.text, f.path)
                    /\ source' = "patch"
                    /\ pc' = "patch_print"
                    /\ UNCHANGED failure
                 \/ /\ newfile_content.ok
                    /\ Abort("from_buffers")
                    /\ UNCHANGED <<pending, source>>
                 \/ /\ ~newfile_content.ok
                    /\ Abort("read_link")
                    /\ UNCHANGED <<pending, source>>
    /\ UNCHANGED <<stage, overflow_checks, deltas, free_stream, res, current_lines,
                   current_hunk, emitted>>

\* mutant of GenericDiff: the file content is read before the branch, so
\* the generic path reads it as well
GenericDiff_reads_content ==
    /\ pc = "deltas"
    /\ ~is_new_file_diff(deltas)
    /\ source' = "diff"
    /\ pc' = "diff_print"
    /\ reads' = reads + 1
    /\ IF deltas = <<>>
       THEN pending' = <<>> /\ free_stream' = FALSE /\ UNCHANGED file
       ELSE IF stage /\ deltas = <<"Added">>
       THEN \E f \in StagedFiles :
               /\ file' = <<f>>
               /\ pending' = DiffPrintAdded(f)
               /\ free_stream' = FALSE
       ELSE pending' = <<>> /\ free_stream' = TRUE /\ UNCHANGED file
    /\ UNCHANGED <<stage, overflow_checks, deltas, res, current_lines, current_hunk,
                   failure, emitted>>

\* `if !new_file_diff { diff.print(..) }`: the generic stream is started
GenericDiff ==
    /\ pc = "deltas"
    /\ ~is_new_file_diff(deltas)
    /\ source' = "diff"
    /\ pc' = "diff_print"
    /\ IF deltas = <<>>
       THEN pending' = <<>> /\ free_stream' = FALSE /\ UNCHANGED file
       ELSE IF stage /\ deltas = <<"Added">>
       THEN \E f \in StagedFiles :
               /\ file' = <<f>>
               /\ pending' = DiffPrintAdded(f)
               /\ free_stream' = FALSE
       ELSE pending' = <<>> /\ free_stream' = TRUE /\ UNCHANGED file
    /\ UNCHANGED <<stage, overflow_checks, deltas, res, current_lines, current_hunk,
                   reads, failure, emitted>>

\* one invocation of the callback: put(hunk, line); true
Callback(ev) ==
    LET a == [res |-> res, current_lines |-> current_lines, current_hunk |-> current_hunk]
        b == put(a, ev)
    IN  IF overflow_checks /\ put_overflows(a, ev)
        THEN /\ Abort("overflow")
             /\ UNCHANGED <<res, current_lines, current_hunk, emitted>>
        ELSE /\ res' = b.res
             /\ current_lines' = b.current_lines
             /\ current_hunk' = b.current_hunk
             /\ emitted' = Append(emitted, ev)
             /\ UNCHANGED <<pc, failure>>

\* patch.print delivers the next line of the synthetic patch
PatchPut ==
    /\ pc = "patch_print"
    /\ pending # <<>>
    /\ Callback(Head(pending))
    /\ pending' = Tail(pending)
    /\ UNCHANGED <<stage, overflow_checks, deltas, file, free_stream, source, reads>>

\* patch.print returns Ok: new_file_diff is true, diff.print is skipped
PatchPrintOk ==
    /\ pc = "patch_print"
    /\ pending = <<>>
    /\ pc' = "flush"
    /\ UNCHANGED <<stage, overflow_checks, deltas, file, pending, free_stream, res,
                   current_lines, current_hunk, source, reads, failure, emitted>>

\* patch.print returns Err
PatchPrintErr ==
    /\ pc = "patch_print"
    /\ Abort("patch_print")
    /\ UNCHANGED <<stage, overflow_checks, deltas, file, pending, free_stream, res,
                   current_lines, current_hunk, source, reads, emitted>>

\* diff.print delivers the next line of the generic diff
DiffPut ==
    /\ pc = "diff_print"
    /\ IF free_stream
       THEN /\ Len(emitted) < MaxEvents
            /\ \E ev \in Events : Callback(ev)
            /\ UNCHANGED pending
       ELSE /\ pending # <<>>
            /\ Callback(Head(pending))
            /\ pending' = Tail(pending)
    /\ UNCHANGED <<stage, overflow_checks, deltas, file, free_stream, source, reads>>

\* diff.print returns Ok
DiffPrintOk ==
    /\ pc = "diff_print"
    /\ pending = <<>>
    /\ pc' = "flush"
    /\ UNCHANGED <<stage, overflow_checks, deltas, file, pending, free_stream, res,
                   current_lines, current_hunk, source, reads, failure, emitted>>

\* diff.print returns Err
DiffPrintErr ==
    /\ pc = "diff_print"
    /\ Abort("diff_print")
    /\ UNCHANGED <<stage, overflow_checks, deltas, file, pending, free_stream, res,
                   current_lines, current_hunk, source, reads, emitted>>

\* the flush of the last hunk and the return of res
FinalFlush ==
    /\ pc = "flush"
    /\ IF overflow_checks /\ current_lines # <<>> /\ adder_overflows(res, current_lines)
       THEN Abort("overflow") /\ UNCHANGED res
       ELSE /\ res' = final_flush(res, current_lines)
            /\ pc' = "done"
            /\ UNCHANGED failure
    /\ UNCHANGED <<stage, overflow_checks, deltas, file, pending, free_stream,
                   current_lines, current_hunk, source, reads, emitted>>

Next ==
    \/ OpenRepo
    \/ BuildDiff
    \/ NewFilePatch
    \/ GenericDiff
    \/ PatchPut
    \/ PatchPrintOk
    \/ PatchPrintErr
    \/ DiffPut
    \/ DiffPrintOk
    \/ DiffPrintErr
    \/ FinalFlush

Spec == Init /\ [][Next]_vars

(***************************************************************************)
(* Notions the properties are stated with                                  *)
(***************************************************************************)
\* the events that carry a hunk header, in emission order
HeaderBearing(evs) == SelectSeq(evs, LAMBDA e : e.hunk # <<>>)

\* the lines of a sequence of header-bearing events, in order
LinesOf(evs) ==
    [k \in 1..Len(evs) |-> DiffLine(evs[k].origin, evs[k].content, evs[k].n)]

RECURSIVE Concat(_)
\* the lines of the hunks, concatenated in hunk order
Concat(hunks) ==
    IF hunks = <<>> THEN <<>> ELSE Head(hunks) \o Concat(Tail(hunks))

RECURSIVE SumLens(_)
\* the sum of the lengths of the hunks, as a mathematical integer
SumLens(hunks) ==
    IF hunks = <<>> THEN 0 ELSE VecLen(Head(hunks)) + SumLens(Tail(hunks))

RECURSIVE At(_, _)
\* the line at index i (from 0) of a vector kept as runs
At(lines, i) ==
    IF i < Head(lines).n THEN Head(lines) ELSE At(Tail(lines), i - Head(lines).n)

\* the header-bearing events delivered so far
Hb == HeaderBearing(emitted)

\* the index at which the last run of equal headers of evs starts
LastRunStart(evs) ==
    CHOOSE i \in 1..Len(evs) :
        /\ \A k \in i..Len(evs) : evs[k].hunk = evs[Len(evs)].hunk
        /\ i > 1 => evs[i - 1].hunk # evs[Len(evs)].hunk

\* a regular file whose content read_to_string returns: readable text
IsTextFile(f) == f.kind = "file" /\ read_to_string_ok(f)

\* the call is the unstaged diff of an untracked text file, and returned
UntrackedTextDone ==
    /\ pc = "done"
    /\ ~stage
    /\ deltas = <<"Untracked">>
    /\ file # <<>>
    /\ IsTextFile(file[1])

RECURSIVE Fold(_, _)
\* the accumulator after the events evs have been put into a
Fold(a, evs) == IF evs = <<>> THEN a ELSE Fold(put(a, Head(evs)), Tail(evs))

\* the Diff that the unstaged get_diff returns for the untracked file f
UnstagedDiffOf(f) ==
    LET a == Fold([res |-> EmptyDiff, current_lines |-> <<>>, current_hunk |-> <<>>],
                  PatchPrint(new_file_content(f).text, f.path))
    IN  final_flush(a.res, a.current_lines)

\* every line of every hunk is an addition
AllAdd(hunks) ==
    \A i \in 1..Len(hunks) : \A k \in 1..Len(hunks[i]) : hunks[i][k].line_type = "Add"

(***************************************************************************)
(* Properties                                                              *)
(***************************************************************************)

\* C1: the total line count of the returned Diff equals the sum of the
\* lengths of its hunks, for every event stream.
C1_CountIsSum == pc = "done" => res.count = SumLens(res.hunks)

\* C2: no hunk of the result is empty, neither one flushed by a header
\* change nor the one flushed at the end of the stream.
C2_NoEmptyHunk == \A i \in 1..Len(res.hunks) : VecLen(res.hunks[i]) > 0

\* C2 witness: a Diff was returned that holds a hunk flushed by a header
\* change and the hunk flushed at the end.
C2_Witness == pc = "done" /\ Len(res.hunks) >= 2

\* C3: the lines of the returned hunks, concatenated in hunk order, are
\* exactly the lines of the header-bearing events in emission order, and the
\* final hunk holds the lines received after the last header change.
C3_LinesPreserved ==
    pc = "done" =>
        /\ Concat(res.hunks) = LinesOf(Hb)
        /\ Hb # <<>> =>
              /\ res.hunks # <<>>
              /\ res.hunks[Len(res.hunks)] = LinesOf(SubSeq(Hb, LastRunStart(Hb), Len(Hb)))

\* C3 witness: a Diff was returned for a stream of three header-bearing
\* events with two different lines and a header change before the last one.
C3_Witness ==
    /\ pc = "done"
    /\ Len(Hb) = 3
    /\ Hb[1].content # Hb[2].content
    /\ Hb[2].hunk # Hb[3].hunk
    /\ Len(res.hunks) >= 2

\* C4: when the header-bearing events carry a header A for a first run and
\* a different header B for a second run, exactly two hunks are returned,
\* the first with the lines of the first run and the second with the lines
\* of the second run, each in emission order.
C4_TwoRegionsTwoHunks ==
    pc = "done" =>
        \A i \in 1..(Len(Hb) - 1) :
            ( /\ \A k \in 1..i : Hb[k].hunk = Hb[1].hunk
              /\ \A k \in (i + 1)..Len(Hb) : Hb[k].hunk = Hb[Len(Hb)].hunk
              /\ Hb[1].hunk # Hb[Len(Hb)].hunk )
            => res.hunks = <<LinesOf(SubSeq(Hb, 1, i)), LinesOf(SubSeq(Hb, i + 1, Len(Hb)))>>

\* C4 witness: a Diff was returned for a stream with two events of header
\* HA followed by one event of header HB.
C4_Witness ==
    /\ pc = "done"
    /\ Len(Hb) = 3
    /\ Hb[1].hunk = <<HA>> /\ Hb[2].hunk = <<HA>> /\ Hb[3].hunk = <<HB>>
    /\ Hb[1].content # Hb[2].content

\* C5: header records with the same four range values are the same hunk
\* although they arrive in separate callback invocations: while every
\* header-bearing event so far carries the header of the first, nothing has
\* been flushed, and such a stream yields exactly one hunk, flushed at the end.
C5_SameHeaderOneHunk ==
    (\A k \in 1..Len(Hb) : Hb[k].hunk = Hb[1].hunk) =>
        /\ pc # "done" => res.hunks = <<>>
        /\ pc = "done" /\ Hb # <<>> => res.hunks = <<LinesOf(Hb)>>

\* C5 witness: a Diff was returned for a stream of three separate events
\* that all carry the same header.
C5_Witness ==
    /\ pc = "done"
    /\ Len(Hb) = 3
    /\ \A k \in 1..3 : Hb[k].hunk = Hb[1].hunk /\ Hb[k].n = 1
    /\ Len(res.hunks) = 1

\* C6 as stated: the unstaged diff of a new untracked text file with N >= 1
\* lines is exactly one hunk whose lines are all Add and whose contents are
\* the file's lines in order.
C6_AllAddOriginal ==
    UntrackedTextDone /\ Len(file[1].lines) >= 1 =>
        LET f == file[1]
        IN  /\ Len(res.hunks) = 1
            /\ AllAdd(res.hunks)
            /\ [k \in 1..Len(res.hunks[1]) |-> res.hunks[1][k].content]
                   = [k \in 1..Len(f.lines) |-> LineBytes(Text(f.lines, f.eofnl), k)]

\* C6 amended: the unstaged diff of a new untracked text file with N >= 1
\* lines is exactly one hunk: the hunk-header line classified Header, then
\* the file's N lines in order classified Add, then, when the file does not
\* end with a newline, the no-newline marker (origin '<', classified
\* Delete); the count is the length of that hunk and the path of the file
\* (top level or nested) does not matter.
C6_HeaderThenAdds ==
    UntrackedTextDone /\ Len(file[1].lines) >= 1 =>
        LET f == file[1]
            N == Len(f.lines)
            text == Text(f.lines, f.eofnl)
            hunk == res.hunks[1]
        IN  /\ Len(res.hunks) = 1
            /\ Len(hunk) = N + 1 + (IF f.eofnl THEN 0 ELSE 1)
            /\ hunk[1].line_type = "Header"
            /\ \A k \in 1..N :
                  hunk[k + 1] = [content |-> LineBytes(text, k), line_type |-> "Add", n |-> 1]
            /\ ~f.eofnl => hunk[N + 2].line_type = "Delete"
            /\ res.count = Len(hunk)

\* C6 witness: the unstaged diff of an untracked text file of two different
\* lines without a final newline was returned.
C6_Witness ==
    /\ UntrackedTextDone
    /\ Len(file[1].lines) = 2
    /\ file[1].lines[1] # file[1].lines[2]
    /\ ~file[1].eofnl
    /\ source = "patch"

C8_NoEventsEmptyDiff ==
    pc = "done" =>
        /\ deltas = <<>> => emitted = <<>>
        /\ emitted = <<>> => res.hunks = <<>> /\ res.count = 0

\* C8 witness: a Diff was returned for a diff without deltas.
C8_Witness == pc = "done" /\ deltas = <<>> /\ emitted = <<>> /\ source = "diff"

\* the file is one whose content new_file_content returns as it is staged
IsStagedText(f) ==
    \/ IsTextFile(f)
    \/ f.kind = "symlink" /\ f.target \notin InvalidBytes

\* the call is the staged diff of a newly staged file, and returned
StagedNewDone ==
    /\ pc = "done"
    /\ stage
    /\ deltas = <<"Added">>
    /\ file # <<>>
    /\ IsStagedText(file[1])

C10_CompleteOrAborted ==
    /\ failure # "none" <=> pc = "aborted"
    /\ ~(ENABLED Next) => pc \in {"done", "aborted"}
    /\ pc = "done" =>
          /\ pending = <<>>
          /\ Concat(res.hunks) = LinesOf(Hb)

\* C10 witness: the streaming failed after lines had been accumulated, and
\* the call ended aborted.
C10_Witness ==
    /\ pc = "aborted"
    /\ failure \in {"diff_print", "patch_print"}
    /\ current_lines # <<>>
    /\ res.hunks # <<>>

\* the accumulator before the first event
EmptyAcc == [res |-> EmptyDiff, current_lines |-> <<>>, current_hunk |-> <<>>]

\* the Diff returned for the stream evs by a call that does not abort
DiffOfStream(evs) ==
    LET a == Fold(EmptyAcc, evs) IN final_flush(a.res, a.current_lines)

\* this step delivered an event to put
Delivered == emitted' # emitted

\* the event delivered by this step
LastEvent == emitted'[Len(emitted')]

\* C11: an event without a hunk header is ignored entirely: the step leaves
\* the tracked header, the line buffer, the hunk list and the count as they
\* were, and the returned Diff is the Diff of the stream without its
\* headerless events.
C11_HeaderlessIgnored ==
    [][ /\ Delivered /\ LastEvent.hunk = <<>> =>
              UNCHANGED <<res, current_lines, current_hunk>>
        /\ pc' = "done" => res' = DiffOfStream(HeaderBearing(emitted'))
      ]_vars

\* C11 witness: a Diff was returned for a stream in which a headerless
\* binary notice arrived between two lines of the same hunk.
C11_Witness ==
    /\ pc = "done"
    /\ Len(emitted) = 3
    /\ emitted[1].hunk # <<>>
    /\ emitted[2].hunk = <<>> /\ emitted[2].origin = "B"
    /\ emitted[3].hunk = emitted[1].hunk
    /\ Len(res.hunks) = 1

\* the delivered event carries a header while a header is tracked, and the
\* two differ in at least one of the four range fields
HeaderChanged ==
    /\ LastEvent.hunk # <<>>
    /\ current_hunk # <<>>
    /\ \E fld \in {"old_start", "old_lines", "new_start", "new_lines"} :
          LastEvent.hunk[1][fld] # current_hunk[1][fld]

\* the line of the delivered event
LastLine == DiffLine(LastEvent.origin, LastEvent.content, LastEvent.n)

\* the parts of C12 that do not speak of the total
FlushStepFrame ==
    /\ Delivered => (res'.hunks # res.hunks <=> HeaderChanged)
    /\ Delivered /\ HeaderChanged =>
          /\ res'.hunks = Append(res.hunks, current_lines)
          /\ current_lines' = <<LastLine>>
          /\ current_hunk' = <<HunkHeaderFrom(LastEvent.hunk[1])>>
    /\ Delivered /\ LastEvent.hunk # <<>> /\ current_hunk = <<>> =>
          /\ res' = res
          /\ current_hunk' = <<HunkHeaderFrom(LastEvent.hunk[1])>>
          /\ current_lines' = Append(current_lines, LastLine)

\* C12: while the stream is consumed a flush happens exactly when a
\* header-bearing event arrives whose header differs from the tracked one;
\* the step appends the buffered lines as one hunk, adds their number to the
\* total, clears the buffer and adopts the new header, and the triggering
\* line becomes the first line of the next hunk; the first header-bearing
\* event only adopts its header.
C12_FlushOnHeaderChange ==
    [][ /\ FlushStepFrame
        /\ Delivered /\ HeaderChanged =>
              res'.count = res.count + VecLen(current_lines)
      ]_vars

\* C12 with the total taken in the arithmetic of the u16 counter: the
\* truncated length is added modulo 2^16.
C12_FlushOnHeaderChangeU16 ==
    [][ /\ FlushStepFrame
        /\ Delivered /\ HeaderChanged =>
              res'.count = as_u16(res.count + as_u16(VecLen(current_lines)))
      ]_vars

RECURSIVE GroupByHeader(_)
\* the group-by-adjacent-key reduction of header-bearing events: the lines
\* of each maximal run of consecutive events with equal headers
GroupByHeader(evs) ==
    IF evs = <<>> THEN <<>>
    ELSE LET line == DiffLine(Head(evs).origin, Head(evs).content, Head(evs).n)
             rest == GroupByHeader(Tail(evs))
         IN  IF Len(evs) > 1 /\ evs[2].hunk = evs[1].hunk
             THEN <<<<line>> \o Head(rest)>> \o Tail(rest)
             ELSE <<<<line>>>> \o rest

\* the positions at which two consecutive events have unequal headers
HeaderChanges(evs) == {i \in 1..(Len(evs) - 1) : evs[i].hunk # evs[i + 1].hunk}

\* C13: the returned hunks are the group-by-adjacent-key reduction of the
\* header-bearing events keyed by header; their number is one plus the
\* number of header changes (zero without header-bearing events), so a
\* header that reappears after a different one starts a new hunk.
C13_GroupByAdjacentHeader ==
    pc = "done" =>
        /\ res.hunks = GroupByHeader(Hb)
        /\ Len(res.hunks) = IF Hb = <<>> THEN 0 ELSE 1 + Cardinality(HeaderChanges(Hb))

\* C13 witness: a Diff was returned for the headers HA, HB, HA, with three
\* hunks.
C13_Witness ==
    /\ pc = "done"
    /\ Len(Hb) = 3
    /\ Hb[1].hunk = <<HA>> /\ Hb[2].hunk = <<HB>> /\ Hb[3].hunk = <<HA>>
    /\ Len(res.hunks) = 3

\* the classification that C14 states for an origin marker
StatedType(origin) ==
    IF origin = "H" THEN "Header"
    ELSE IF origin = "<" \/ origin = "-" THEN "Delete"
    ELSE IF origin = ">" \/ origin = "+" THEN "Add"
    ELSE "None"

\* C14: every line appended to a hunk is classified from its origin marker
\* alone: 'H' Header, '<' or '-' Delete, '>' or '+' Add, anything else
\* None, whatever the header, the earlier events and the content.
C14_TypeFromOrigin ==
    [][ Delivered /\ LastEvent.hunk # <<>> =>
            /\ current_lines' # <<>>
            /\ current_lines'[Len(current_lines')].line_type = StatedType(LastEvent.origin)
      ]_vars

\* C14 witness: a Diff was returned whose lines came with the markers '>',
\* '=' and '-' and are classified Add, None and Delete.
C14_Witness ==
    /\ pc = "done"
    /\ [k \in 1..Len(Hb) |-> Hb[k].origin] = <<">", "=", "-">>
    /\ [k \in 1..Len(Concat(res.hunks)) |-> Concat(res.hunks)[k].line_type]
           = <<"Add", "None", "Delete">>

\* the delta list has exactly one delta, and its status is untracked
SingleUntracked == Len(deltas) = 1 /\ deltas[1] = "Untracked"

\* C15: the synthetic patch stream is fed to the accumulator if and only if
\* the delta list has exactly one delta and that delta is untracked; then
\* the generic stream is never consumed, and in every other case only the
\* generic stream is: a call that streams consumes exactly one of the two.
C15_OneStreamPerCall ==
    /\ [](pc \in {"patch_print", "diff_print", "flush", "done"} =>
              /\ source \in {"patch", "diff"}
              /\ source = "patch" <=> SingleUntracked)
    /\ [][ /\ Delivered /\ pc = "patch_print" => source = "patch" /\ SingleUntracked
           /\ Delivered /\ pc = "diff_print" => source = "diff" /\ ~SingleUntracked
           /\ source # "none" => source' = source /\ deltas' = deltas
           /\ pc = "patch_print" => pc' # "diff_print"
           /\ pc = "diff_print" => pc' # "patch_print"
         ]_vars

\* C15 witness: a Diff was returned whose lines all came from the synthetic
\* patch of the single untracked delta.
C15_Witness ==
    /\ pc = "done"
    /\ SingleUntracked
    /\ source = "patch"
    /\ Hb # <<>>

\* C16: the content of the working-tree file is read (new_file_content is
\* called) only when the delta list is a single untracked delta, and then
\* exactly once in the call; in every other case, staged or not, no file
\* content is read.
C16_ReadOnlyForSingleUntracked ==
    /\ reads \in {0, 1}
    /\ reads = 1 => SingleUntracked /\ ~stage /\ file # <<>>
    /\ pc \in {"patch_print", "diff_print", "flush", "done"} =>
          (reads = 1 <=> SingleUntracked)

\* C16 witness: the unstaged diff of a single untracked file was returned
\* with its lines after one read of the file.
C16_Witness ==
    /\ pc = "done"
    /\ ~stage
    /\ SingleUntracked
    /\ file # <<>> /\ file[1].kind = "file"
    /\ Hb # <<>>
    /\ reads = 1

\* the content that C17 states for what sits at the path
StatedContent(f) ==
    IF f.kind = "symlink" THEN Text(<<f.target>>, FALSE)
    ELSE IF f.kind = "file" /\ f.readable /\ (\A k \in 1..Len(f.lines) : f.lines[k] # "<ff>")
    THEN Text(f.lines, f.eofnl)
    ELSE FileNotFound

\* C17: the content resolution for the synthetic patch never aborts the
\* call: a symbolic link gives its target path string, a regular file its
\* text when readable and decodable, and everything else the fixed string
\* "file not found"; the patch is made of that content.
C17_ContentNeverAborts ==
    reads = 1 =>
        /\ failure # "read_link"
        /\ source = "patch" =>
              emitted \o pending = PatchPrint(StatedContent(file[1]), file[1].path)

\* C18: the total count is a u16 with no guard in the code: it always
\* equals the sum of the flushed hunks' lengths modulo 2^16, so it is exact
\* while that sum is at most 65535 and wrapped (not saturated) beyond; with
\* wrapping arithmetic no call is aborted because of it.
C18_CounterWraps ==
    /\ res.count \in 0..U16_MAX
    /\ res.count = SumLens(res.hunks) % (U16_MAX + 1)
    /\ SumLens(res.hunks) <= U16_MAX => res.count = SumLens(res.hunks)
    /\ failure = "overflow" => overflow_checks

\* a call returns more than 65535 lines in two hunks and a wrapped count
C18_Witness ==
    /\ pc = "done"
    /\ ~overflow_checks
    /\ Len(res.hunks) = 2
    /\ SumLens(res.hunks) = U16_MAX + 1
    /\ res.count = 0

\* C19: at every point of a call the tracked header is unset exactly when
\* the line buffer is empty; while it is unset the result has no hunks and a
\* zero count; and a header that has been adopted is never unset again.
C19_HeaderAndBuffer ==
    /\ [](/\ current_hunk = <<>> <=> current_lines = <<>>
          /\ current_hunk = <<>> => res = EmptyDiff)
    /\ [][current_hunk # <<>> => current_hunk' # <<>>]_vars

\* a headerless event left the header unset, later events adopted a header and
\* a flush happened with the header still set
C19_Witness ==
    /\ Len(emitted) = 3
    /\ emitted[1].hunk = <<>>
    /\ emitted[2].hunk # <<>>
    /\ Len(res.hunks) = 1
    /\ current_hunk # <<>>
    /\ current_lines # <<>>
    /\ pc = "diff_print"

\* s is an initial part of t
IsPrefix(s, t) == Len(s) <= Len(t) /\ SubSeq(t, 1, Len(s)) = s

\* C20: the result is append-only: a step never changes or moves a flushed
\* hunk and adds at most one hunk, at the end; while the lines fit the counter
\* the count does not decrease; hence the hunk list after every prefix of the
\* stream is an initial part of the hunk list of the returned Diff.
C20_AppendOnly ==
    [][ /\ IsPrefix(res.hunks, res'.hunks)
        /\ Len(res'.hunks) <= Len(res.hunks) + 1
        /\ SumLens(res'.hunks) <= U16_MAX => res.count <= res'.count
        /\ pc' = "done" =>
              \A k \in 0..Len(emitted') :
                  IsPrefix(Fold(EmptyAcc, SubSeq(emitted', 1, k)).res.hunks, res'.hunks)
      ]_vars

\* a call returned three hunks, two flushed by header changes during the
\* stream and the last one by the final flush
C20_Witness ==
    /\ pc = "done"
    /\ Len(emitted) = 3
    /\ Len(res.hunks) = 3
    /\ res.hunks[1] # res.hunks[2]
    /\ res.count = 3

====
